---- MODULE Spec2Model ----
(***************************************************************************)
(* Model of filetree/data.go: the DiffType fold (merge), the streaming     *)
(* hasher behind NewFileInfo (getHashFromReader), and the NodeData payload *)
(* with its Copy, its field writes and FileInfo.Compare.                   *)
(*                                                                         *)
(* Three state machines share the module, one per part of the file:        *)
(*   SpecMerge  a caller folding child statuses with DiffType.merge        *)
(*   SpecHash   one call of NewFileInfo, the read loop step by step        *)
(*   SpecNode   two NodeData values, Copy, field writes and Compare        *)
(* Each leaves the variables of the other two at their idle values.        *)
(***************************************************************************)
EXTENDS Integers, Sequences, FiniteSets, TLC

VARIABLES
    \* ---- SpecMerge
    statuses,   \* the child statuses the caller folds, in iteration order
    idx,        \* number of children folded so far
    acc,        \* the running result of the fold
    \* ---- SpecHash
    header,     \* the tar header handed to NewFileInfo: Typeflag, Size, Xattrs
    data,       \* the bytes the stream holds for this entry
    pos,        \* stream position: bytes delivered so far
    buf,        \* getHashFromReader's buffer, reused across reads
    h,          \* the running state of the hash accumulator
    fed,        \* history: the bytes written to the accumulator, in order
    bytesRead,  \* getHashFromReader's bytesRead
    hash,       \* the fingerprint getHashFromReader returned, or NoHash
    pc,         \* position of the NewFileInfo call
    result,     \* the FileInfo NewFileInfo returned, or NoFileInfo
    reads,      \* number of Read calls issued on the stream
    lastRead,   \* outcome (n, err) of the most recent Read
    errAt,      \* history: index of the Read that returned a non-EOF error, 0 if none
    zeroNil,    \* history: some Read returned (0, nil)
    \* ---- SpecNode
    nodes,      \* the NodeData values d and c (NoNode before c is made)
    heap,       \* the maps tar.Header fields refer to: reference -> contents
    cmp,        \* the last Compare: operands and result, NoCompare after a write
    writes,     \* number of field writes performed (bounded)
    lastOp      \* the operation that produced the current state

mergeVars == <<statuses, idx, acc>>
hashVars  == <<header, data, pos, buf, h, fed, bytesRead, hash, pc, result,
               reads, lastRead, errAt, zeroNil>>
nodeVars  == <<nodes, heap, cmp, writes, lastOp>>
vars      == <<mergeVars, hashVars, nodeVars>>

----------------------------------------------------------------------------
\* Bounds of the model.
MaxSeq     == 3    \* children folded by one merge fold
MaxLen     == 3    \* bytes a stream holds
MaxSize    == 3    \* declared header size
ChunkBound == 2    \* buffer size in bytes (the source's is 2 MiB)
HashWidth  == 3    \* bits of the modelled fingerprint (the source's is 64)
MaxHash    == 1    \* fingerprints 0..MaxHash appear in SpecNode
MaxWrites  == 2    \* field writes in one SpecNode behaviour

Min(a, b) == IF a < b THEN a ELSE b

----------------------------------------------------------------------------
\* DiffType and merge.
Unchanged == 0
Changed   == 1
Added     == 2
Removed   == 3
DiffTypes == {Unchanged, Changed, Added, Removed}

merge_returnsOther(diff, other) == other

merge_alwaysChanged(diff, other) == Changed

merge(diff, other) ==
    IF diff = other THEN diff ELSE Changed

\* The caller's fold over a sequence of child statuses, left to right.
RECURSIVE FoldLeft(_)
FoldLeft(s) ==
    IF Len(s) = 1 THEN s[1]
    ELSE merge(FoldLeft(SubSeq(s, 1, Len(s) - 1)), s[Len(s)])

StatusSeqs == UNION {[1..n -> DiffTypes] : n \in 1..MaxSeq}

InitMerge ==
    /\ statuses \in StatusSeqs
    /\ idx = 1
    /\ acc = statuses[1]
    \* the other two machines stay idle
    /\ header = [Typeflag |-> 0, Size |-> 0, Xattrs |-> 0]
    /\ data = <<>> /\ pos = 0 /\ buf = <<>> /\ h = [acc |-> 0, len |-> 0]
    /\ fed = <<>> /\ bytesRead = 0 /\ hash = <<>> /\ pc = "idle"
    /\ result = [none |-> TRUE] /\ reads = 0
    /\ lastRead = [n |-> 0, err |-> "none"] /\ errAt = 0 /\ zeroNil = FALSE
    /\ nodes = [n \in {"d", "c"} |-> [none |-> TRUE]]
    /\ heap = <<>> /\ cmp = [none |-> TRUE] /\ writes = 0 /\ lastOp = "idle"

MergeChild ==
    /\ idx < Len(statuses)
    /\ acc' = merge(acc, statuses[idx + 1])
    /\ idx' = idx + 1
    /\ UNCHANGED <<statuses, hashVars, nodeVars>>

----------------------------------------------------------------------------
\* NewFileInfo and getHashFromReader.
TypeDir   == 53                 \* tar.TypeDir, '5'
TypeFlags == {0, 50, 53}        \* the zero value (TypeRegA), symlink, directory
Bytes     == {0, 1}
Paths     == {"a", "b"}
NilMap    == 0                  \* a nil map reference
Nil       == "nil"
EOF       == "EOF"
ErrIO     == "err"              \* any error other than io.EOF

NoFileInfo == [none |-> TRUE]
NoRead     == [n |-> 0, err |-> "none"]

chuckSize == ChunkBound

Headers  == [Typeflag : TypeFlags, Size : 0..MaxSize, Xattrs : {NilMap}]
ByteSeqs == UNION {[1..n -> Bytes] : n \in 0..MaxLen}

\* The hash accumulator: xxhash.New(), Write and Sum64, on HashWidth bits.
HashMod == 2 ^ HashWidth

XXHNew == [acc |-> 0, len |-> 0]

RECURSIVE XXHWrite(_, _)
XXHWrite(d, p) ==
    IF p = <<>> THEN d
    ELSE XXHWrite([acc |-> (d.acc * 5 + Head(p) + 1) % HashMod,
                   len |-> d.len + 1], Tail(p))

Sum64(d) == (d.acc * 3 + d.len) % HashMod

\* The digest of a byte sequence hashed in one piece.
XXH64(s) == Sum64(XXHWrite(XXHNew, s))

\* make([]byte, chuckSize)
NewBuf == [i \in 1..chuckSize |-> 0]

\* What one reader.Read(buf) may return at stream position p: n bytes, at most
\* len(buf) and at most what the stream still holds, with no error, with io.EOF
\* (only once the stream is exhausted) or with another error. io.Reader lets a
\* Read return (0, nil) while bytes remain ("nothing happened"); an exhausted
\* stream reports io.EOF.
ReadOutcomes(p) ==
    {o \in [n : 0..Min(chuckSize, Len(data) - p), err : {Nil, EOF, ErrIO}] :
        /\ o.err = EOF => p + o.n = Len(data)
        /\ (o.n = 0 /\ o.err = Nil) => p < Len(data)}

\* buf after Read stored n bytes from position p at its front.
Filled(b, p, n) ==
    [i \in 1..Len(b) |-> IF i <= n THEN data[p + i] ELSE b[i]]

IsDir_onlyEmpty(hd) == hd.Typeflag = TypeDir /\ hd.Size = 0

IsDir(hd) == hd.Typeflag = TypeDir

ReadFails_ignored(err) == FALSE

ReadFails(err) == err # Nil /\ err # EOF

Chunk_wholeBuffer(b, n) == b

Chunk(b, n) == SubSeq(b, 1, n)

SizeMismatch_onlyShort(n, hd) == n < hd.Size

SizeMismatch(n, hd) == n # hd.Size

FileInfoOf(path, hd, hsh) ==
    [Path |-> path, TypeFlag |-> hd.Typeflag, hash |-> hsh, TarHeader |-> hd]

InitHash ==
    /\ header \in Headers
    /\ data \in ByteSeqs
    /\ pos = 0 /\ buf = <<>> /\ h = XXHNew /\ fed = <<>>
    /\ bytesRead = 0 /\ hash = <<>> /\ pc = "start" /\ result = NoFileInfo
    /\ reads = 0 /\ lastRead = NoRead /\ errAt = 0 /\ zeroNil = FALSE
    \* the other two machines stay idle
    /\ statuses = <<Unchanged>> /\ idx = 1 /\ acc = Unchanged
    /\ nodes = [n \in {"d", "c"} |-> [none |-> TRUE]]
    /\ heap = <<>> /\ cmp = [none |-> TRUE] /\ writes = 0 /\ lastOp = "idle"

\* NewFileInfo on a directory header: returns at once, hash 0.
NewFileInfoDir ==
    /\ pc = "start"
    /\ IsDir(header)
    /\ result' = FileInfoOf("a", header, 0)
    /\ pc' = "done"
    /\ UNCHANGED <<header, data, pos, buf, h, fed, bytesRead, hash, reads,
                   lastRead, errAt, zeroNil, mergeVars, nodeVars>>

\* NewFileInfo on any other header enters getHashFromReader.
HashStart ==
    /\ pc = "start"
    /\ ~IsDir(header)
    /\ h' = XXHNew
    /\ buf' = NewBuf
    /\ bytesRead' = 0
    /\ pc' = "loop"
    /\ UNCHANGED <<header, data, pos, fed, hash, result, reads, lastRead,
                   errAt, zeroNil, mergeVars, nodeVars>>

\* One iteration of the read loop.
ReadLoop ==
    /\ pc = "loop"
    /\ \E o \in ReadOutcomes(pos) :
         LET b1 == Filled(buf, pos, o.n) IN
         /\ reads' = reads + 1
         /\ lastRead' = o
         /\ pos' = pos + o.n
         /\ buf' = b1
         /\ bytesRead' = bytesRead + o.n
         /\ zeroNil' = (zeroNil \/ (o.n = 0 /\ o.err = Nil))
         /\ errAt' = IF o.err = ErrIO /\ errAt = 0 THEN reads + 1 ELSE errAt
         /\ IF ReadFails(o.err)
            THEN /\ pc' = "panicRead"
                 /\ UNCHANGED <<h, fed, hash>>
            ELSE IF o.n = 0
            THEN /\ pc' = "check"
                 /\ hash' = <<Sum64(h)>>
                 /\ UNCHANGED <<h, fed>>
            ELSE /\ h' = XXHWrite(h, Chunk(b1, o.n))
                 /\ fed' = fed \o Chunk(b1, o.n)
                 /\ UNCHANGED <<pc, hash>>
    /\ UNCHANGED <<header, data, result, mergeVars, nodeVars>>

\* Back in NewFileInfo: the size check and the return.
SizeCheck ==
    /\ pc = "check"
    /\ IF SizeMismatch(bytesRead, header)
       THEN pc' = "panicSize" /\ UNCHANGED result
       ELSE pc' = "done" /\ result' = FileInfoOf("a", header, hash[1])
    /\ UNCHANGED <<header, data, pos, buf, h, fed, bytesRead, hash, reads,
                   lastRead, errAt, zeroNil, mergeVars, nodeVars>>

NextHash == NewFileInfoDir \/ HashStart \/ ReadLoop \/ SizeCheck

----------------------------------------------------------------------------
\* NodeData, ViewInfo, FileInfo: construction, Copy, field writes, Compare.
NodeIds   == {"d", "c"}
NoNode    == [none |-> TRUE]
NoCompare == [none |-> TRUE]
XattrVals == {"v", "w"}
EmptyMap  == [k |-> ""]          \* a map with no entry under key k

\* A tar.Header as SpecNode sees it: a nil Xattrs map or a reference into heap.
HeaderOf(t, sz, ref) == [Typeflag |-> t, Size |-> sz, Xattrs |-> ref]

ZeroFileInfo == FileInfoOf("", HeaderOf(0, 0, NilMap), 0)

\* collapse is viper's filetree.collapse-dir.
NewViewInfo(collapse) == [Collapsed |-> collapse, Hidden |-> FALSE]

NewNodeData(collapse) ==
    [ViewInfo |-> NewViewInfo(collapse),
     FileInfo |-> ZeroFileInfo,
     DiffType |-> Unchanged]

\* newView = NewViewInfo(); *newView = *view
ViewInfoCopy(view) ==
    [NewViewInfo(FALSE) EXCEPT !.Collapsed = view.Collapsed,
                               !.Hidden = view.Hidden]

\* The struct value data.TarHeader is copied: its scalar fields by value, its
\* map fields as the same references.
FileInfoCopy(fi) ==
    [Path |-> fi.Path, TypeFlag |-> fi.TypeFlag, hash |-> fi.hash,
     TarHeader |-> fi.TarHeader]

NodeDataCopy(nd) ==
    [ViewInfo |-> ViewInfoCopy(nd.ViewInfo),
     FileInfo |-> FileInfoCopy(nd.FileInfo),
     DiffType |-> nd.DiffType]

Compare_hashOnly(fi, other) ==
    IF fi.hash = other.hash THEN Unchanged ELSE Changed

Compare_alsoHeader(fi, other) ==
    IF fi.TypeFlag = other.TypeFlag /\ fi.hash = other.hash
       /\ fi.TarHeader.Size = other.TarHeader.Size
    THEN Unchanged ELSE Changed

Compare(fi, other) ==
    IF fi.TypeFlag = other.TypeFlag
    THEN IF fi.hash = other.hash THEN Unchanged ELSE Changed
    ELSE Changed

\* What a reader of node n sees: its fields, and the contents of the map its
\* header refers to.
Observed(n) ==
    IF nodes[n] = NoNode THEN <<NoNode, <<>>>>
    ELSE LET ref == nodes[n].FileInfo.TarHeader.Xattrs IN
         <<nodes[n], IF ref = NilMap THEN <<>> ELSE <<heap[ref]>>>>

InitNode ==
    /\ \E collapse \in BOOLEAN :
         nodes = [n \in NodeIds |-> IF n = "d" THEN NewNodeData(collapse) ELSE NoNode]
    /\ heap = <<>> /\ cmp = NoCompare /\ writes = 0 /\ lastOp = "new"
    \* the other two machines stay idle
    /\ statuses = <<Unchanged>> /\ idx = 1 /\ acc = Unchanged
    /\ header = [Typeflag |-> 0, Size |-> 0, Xattrs |-> NilMap]
    /\ data = <<>> /\ pos = 0 /\ buf = <<>> /\ h = XXHNew /\ fed = <<>>
    /\ bytesRead = 0 /\ hash = <<>> /\ pc = "idle" /\ result = NoFileInfo
    /\ reads = 0 /\ lastRead = NoRead /\ errAt = 0 /\ zeroNil = FALSE

Budget == writes < MaxWrites

\* Every write: the node's new value, the heap's, and the bookkeeping.
Store(n, nd, hp) ==
    /\ Budget /\ nodes[n] # NoNode
    /\ nodes' = [nodes EXCEPT ![n] = nd]
    /\ heap' = hp
    /\ cmp' = NoCompare
    /\ writes' = writes + 1
    /\ lastOp' = n
    /\ UNCHANGED <<mergeVars, hashVars>>

\* n.FileInfo = NewFileInfo(reader, header, path), once the node's archive entry
\* is read: a directory header gives hash 0, any other the fingerprint of its
\* payload; the header carries extended attributes (a map of its own) or none.
SetFileInfo(n) ==
    /\ nodes[n] # NoNode
    /\ nodes[n].FileInfo = ZeroFileInfo
    /\ \E t \in TypeFlags, sz \in 0..1, x \in {"", "v"}, hsh \in 0..MaxHash :
         /\ IsDir(HeaderOf(t, sz, NilMap)) => hsh = 0
         /\ nodes' = [nodes EXCEPT ![n].FileInfo =
                FileInfoOf("a", HeaderOf(t, sz, IF x = "" THEN NilMap
                                                ELSE Len(heap) + 1), hsh)]
         /\ heap' = IF x = "" THEN heap ELSE Append(heap, [k |-> x])
    /\ cmp' = NoCompare
    /\ lastOp' = n
    /\ UNCHANGED <<writes, mergeVars, hashVars>>

\* d.Copy(), kept as c.
CopyNode ==
    /\ nodes["d"] # NoNode /\ nodes["c"] = NoNode
    /\ nodes' = [nodes EXCEPT !["c"] = NodeDataCopy(nodes["d"])]
    /\ cmp' = NoCompare
    /\ lastOp' = "copy"
    /\ UNCHANGED <<heap, writes, mergeVars, hashVars>>

WriteViewInfo(n) ==
    /\ \E f \in {"Collapsed", "Hidden"}, b \in BOOLEAN :
         Store(n, [nodes[n] EXCEPT !.ViewInfo[f] = b], heap)

WriteDiffType(n) ==
    /\ \E dt \in DiffTypes : Store(n, [nodes[n] EXCEPT !.DiffType = dt], heap)

WritePath(n) ==
    /\ \E p \in Paths : Store(n, [nodes[n] EXCEPT !.FileInfo.Path = p], heap)

WriteTypeFlag(n) ==
    /\ \E t \in TypeFlags : Store(n, [nodes[n] EXCEPT !.FileInfo.TypeFlag = t], heap)

WriteHash(n) ==
    /\ \E x \in 0..MaxHash : Store(n, [nodes[n] EXCEPT !.FileInfo.hash = x], heap)

WriteHeaderSize(n) ==
    /\ \E sz \in 0..1 :
         Store(n, [nodes[n] EXCEPT !.FileInfo.TarHeader.Size = sz], heap)

\* n.FileInfo.TarHeader.Xattrs = make(map[string]string)
AssignXattrs(n) ==
    /\ Store(n, [nodes[n] EXCEPT !.FileInfo.TarHeader.Xattrs = Len(heap) + 1],
             Append(heap, EmptyMap))

\* n.FileInfo.TarHeader.Xattrs["k"] = x, on a map that is not nil.
WriteXattr(n) ==
    /\ nodes[n] # NoNode
    /\ nodes[n].FileInfo.TarHeader.Xattrs # NilMap
    /\ \E x \in XattrVals :
         Store(n, nodes[n],
               [heap EXCEPT ![nodes[n].FileInfo.TarHeader.Xattrs] = [k |-> x]])

\* a.FileInfo.Compare(b.FileInfo)
DoCompare(a, b) ==
    /\ a # b /\ nodes[a] # NoNode /\ nodes[b] # NoNode
    /\ cmp' = [a |-> a, b |-> b, r |-> Compare(nodes[a].FileInfo, nodes[b].FileInfo)]
    /\ lastOp' = "compare"
    /\ UNCHANGED <<nodes, heap, writes, mergeVars, hashVars>>

NextNode ==
    \/ CopyNode
    \/ \E n \in NodeIds : SetFileInfo(n)
    \/ \E n \in NodeIds : WriteViewInfo(n)
    \/ \E n \in NodeIds : WriteDiffType(n)
    \/ \E n \in NodeIds : WritePath(n)
    \/ \E n \in NodeIds : WriteTypeFlag(n)
    \/ \E n \in NodeIds : WriteHash(n)
    \/ \E n \in NodeIds : WriteHeaderSize(n)
    \/ \E n \in NodeIds : AssignXattrs(n)
    \/ \E n \in NodeIds : WriteXattr(n)

----------------------------------------------------------------------------
\* The compare machine: FileInfo values built by NewFileInfo, copied, their
\* exported TypeFlag and header fields written, then compared.
NextCompare ==
    \/ CopyNode
    \/ \E n \in NodeIds : SetFileInfo(n)
    \/ \E n \in NodeIds : WriteTypeFlag(n)
    \/ \E n \in NodeIds : WriteHeaderSize(n)
    \/ \E a, b \in NodeIds : DoCompare(a, b)

----------------------------------------------------------------------------
\* The specifications.
SpecMerge == InitMerge /\ [][MergeChild]_vars

SpecHash == InitHash /\ [][NextHash]_vars

\* The read loop runs to its end: nothing suspends a synchronous call.
SpecHashFair == SpecHash /\ WF_vars(NextHash)

SpecNode == InitNode /\ [][NextNode]_vars

SpecCompare == InitNode /\ [][NextCompare]_vars

----------------------------------------------------------------------------
\* Claims about DiffType.merge, under SpecMerge.

\* C1: merge is commutative and associative over the four statuses, so the
\* fold of a sequence of child statuses is the same for every permutation of
\* the sequence, and it is what the caller's fold has computed at its end.
C1_MergeCommAssoc ==
    /\ \A a, b \in DiffTypes : merge(a, b) = merge(b, a)
    /\ \A a, b, c \in DiffTypes : merge(merge(a, b), c) = merge(a, merge(b, c))
    /\ \A p \in Permutations(1..Len(statuses)) :
         FoldLeft([i \in 1..Len(statuses) |-> statuses[p[i]]]) = FoldLeft(statuses)
    /\ idx = Len(statuses) => acc = FoldLeft(statuses)

\* A finished fold over three pairwise different statuses.
C1_Witness ==
    /\ Len(statuses) = 3 /\ idx = 3
    /\ Cardinality({statuses[i] : i \in 1..3}) = 3
    /\ acc = Changed

\* C2: merge(x, x) = x and merge(x, y) = Changed for x # y; the fold over the
\* children seen so far is x while they all equal x, and Changed once two differ.
C2_MergeRule ==
    /\ \A x \in DiffTypes : merge(x, x) = x
    /\ \A x, y \in DiffTypes : x # y => merge(x, y) = Changed
    /\ acc = IF \A i \in 1..idx : statuses[i] = statuses[1]
             THEN statuses[1] ELSE Changed

\* The spec's scenario: {Unchanged, Unchanged, Added} folds to Changed.
C2_Witness ==
    /\ statuses = <<Unchanged, Unchanged, Added>>
    /\ idx = 3 /\ acc = Changed

----------------------------------------------------------------------------
\* Claims about NewFileInfo and getHashFromReader, under SpecHash.

HasherReturned == pc \in {"check", "done", "panicSize"} /\ header.Typeflag # TypeDir

\* C3: for a non-directory entry NewFileInfo returns a FileInfo only when the
\* bytes read equal the declared size; when the hasher returns another count,
\* fewer or more, the call panics and no FileInfo is returned.
C3_SizeMismatchFatal ==
    /\ pc # "done" => result = NoFileInfo
    /\ (pc = "done" /\ header.Typeflag # TypeDir) =>
          (result # NoFileInfo /\ bytesRead = header.Size)
    /\ (pc \in {"done", "panicSize"} /\ header.Typeflag # TypeDir
        /\ bytesRead # header.Size) => (pc = "panicSize" /\ result = NoFileInfo)

\* A stream that ends cleanly before the declared size is reached.
C3_Witness ==
    /\ pc = "panicSize" /\ bytesRead < header.Size /\ bytesRead > 0
    /\ lastRead = [n |-> 0, err |-> EOF]
    /\ result = NoFileInfo

\* C7: once a Read returns an error other than io.EOF the call has panicked at
\* that very Read: no Read follows it, no fingerprint and no FileInfo is returned.
C7_ReadErrorFatal ==
    errAt # 0 =>
        /\ pc = "panicRead"
        /\ reads = errAt
        /\ hash = <<>>
        /\ result = NoFileInfo

\* The second Read delivers bytes together with the error.
C7_Witness ==
    /\ pc = "panicRead" /\ errAt = 2 /\ reads = 2
    /\ lastRead.n > 0 /\ lastRead.err = ErrIO

\* C8: however the stream splits its bytes over reads of one byte or more, the
\* bytes written to the accumulator are the stream's bytes in order, bytesRead
\* is their number and the fingerprint is that of the bytes hashed in one piece.
C8_ChunkIndependent ==
    (HasherReturned /\ ~zeroNil) =>
        /\ fed = data
        /\ bytesRead = Len(data)
        /\ hash = <<XXH64(data)>>

\* Three bytes delivered in two reads, so the buffer held a stale byte.
C8_Witness ==
    /\ pc = "check" /\ ~zeroNil
    /\ Len(data) = 3 /\ reads = 3 /\ lastRead = [n |-> 0, err |-> EOF]
    /\ hash = <<XXH64(data)>>

\* C9: for a directory header NewFileInfo reads nothing from the stream, never
\* panics and returns a FileInfo with hash 0 whatever the declared size.
C9_DirNoHash ==
    header.Typeflag = TypeDir =>
        /\ reads = 0 /\ pos = 0 /\ bytesRead = 0
        /\ pc \in {"start", "done"}
        /\ pc = "done" =>
             result = [Path |-> "a", TypeFlag |-> TypeDir, hash |-> 0,
                       TarHeader |-> header]

\* A directory header that declares a size, over a stream that holds bytes.
C9_Witness ==
    /\ pc = "done" /\ header.Typeflag = TypeDir
    /\ header.Size = 3 /\ Len(data) = 2
    /\ result # NoFileInfo /\ result.hash = 0

\* C10: the read loop stops, and stops only at a zero-byte read that reports
\* end-of-stream: when the hasher has returned without a failing read, its
\* last Read was (0, io.EOF).
C10_StopsOnlyAtEOF ==
    (HasherReturned /\ errAt = 0) => lastRead = [n |-> 0, err |-> EOF]

\* C10, the termination half: every call of NewFileInfo ends, by a return or a
\* panic (checked under SpecHashFair).
C10_Terminates == <>(pc \in {"done", "panicRead", "panicSize"})

----------------------------------------------------------------------------
\* Claims about FileInfo.Compare, under SpecCompare.

BothDirs ==
    /\ cmp # NoCompare
    /\ nodes[cmp.a].FileInfo.TypeFlag = TypeDir
    /\ nodes[cmp.b].FileInfo.TypeFlag = TypeDir

\* C4 as claimed: two directory-type FileInfo values compare Unchanged whatever
\* their hash and header fields hold.
C4_DirsAlwaysUnchanged == BothDirs => cmp.r = Unchanged

\* C4 as amended: two directory-type FileInfo values compare Unchanged exactly
\* when their hash fields are equal, whatever their header fields hold.
C4_DirsUnchangedIffSameHash ==
    BothDirs =>
        (cmp.r = Unchanged <=> nodes[cmp.a].FileInfo.hash = nodes[cmp.b].FileInfo.hash)

\* Two directories with equal hashes and different headers, compared.
C4_Witness ==
    /\ BothDirs
    /\ nodes[cmp.a].FileInfo.hash = nodes[cmp.b].FileInfo.hash
    /\ nodes[cmp.a].FileInfo.TarHeader # nodes[cmp.b].FileInfo.TarHeader
    /\ cmp.r = Unchanged

\* C5: FileInfo values of different TypeFlag compare Changed, equal hashes or
\* not; two non-directory values of one type compare Changed exactly when their
\* hashes differ.
C5_TypeDominance ==
    cmp # NoCompare =>
        LET x == nodes[cmp.a].FileInfo
            y == nodes[cmp.b].FileInfo
        IN /\ cmp.r \in {Unchanged, Changed}
           /\ x.TypeFlag # y.TypeFlag => cmp.r = Changed
           /\ (x.TypeFlag = y.TypeFlag /\ x.TypeFlag # TypeDir) =>
                 (cmp.r = Changed <=> x.hash # y.hash)

\* Different types, equal hashes, compared.
C5_Witness ==
    /\ cmp # NoCompare
    /\ nodes[cmp.a].FileInfo.TypeFlag # nodes[cmp.b].FileInfo.TypeFlag
    /\ nodes[cmp.a].FileInfo.hash = nodes[cmp.b].FileInfo.hash
    /\ nodes[cmp.a].FileInfo.hash # 0
    /\ cmp.r = Changed

----------------------------------------------------------------------------
\* Claims about NodeData.Copy, under SpecNode.

\* C6: right after c = d.Copy() a reader sees the same in c as in d, and a
\* write to one of the two nodes changes nothing a reader sees in the other.
C6_CopyIndependence ==
    [][/\ lastOp' = "copy" => Observed("c")' = Observed("d")'
       /\ \A n \in NodeIds : \A m \in NodeIds \ {n} :
             lastOp' = n => Observed(m)' = Observed(m)]_vars

\* C6 without the maps: the fields a write to one node stores in the node
\* itself never change in the other.
C6_ValueFieldsIndependent ==
    [][\A n \in NodeIds : \A m \in NodeIds \ {n} :
          lastOp' = n => nodes'[m] = nodes[m]]_vars

====
